---- MODULE Spec2Model ----
(***************************************************************************)
(* LegalLens brain (Express + ChromaDB + Ollama): the retrieval pipeline   *)
(* of src/unnamed/part_001, lines 278-840.                                 *)
(*                                                                         *)
(* Strings are sequences of one-character strings.  Scores are fixed-point *)
(* integers: component scores in units of 1/10000, the combined score in   *)
(* units of 1/1000000 (the weights are hundredths).  The only quotient of  *)
(* the scoring code, the BM25 term, is truncated to 1/10000.               *)
(***************************************************************************)
EXTENDS Integers, Sequences, FiniteSets, TLC

VARIABLES
  index,        \* the records of the ChromaDB collection "legal_documents"
  req,          \* per request slot: the handler's position and local variables
  uploadsSeen,  \* number of files multer has stored (names are never reused)
  rerankCall,   \* a direct call of optimalReranking: its arguments and result
  chunkCall,    \* a direct call of optimalChunkText: its argument and result
  server,       \* startServer's position and the module variable collection
  ui            \* the React state of App and the /ask fetches not yet settled

vars == <<index, req, uploadsSeen, rerankCall, chunkCall, server, ui>>

(***************************************************************************)
(* Bounds of the model.                                                    *)
(***************************************************************************)
MaxCands == 3

MaxTopK == 3

MaxReq == 2

MaxUploads == 2

MaxDocs == 2

MaxTextLen == 4

MaxWords == 3

MaxChunks == 21

MaxInFlight == 3

(***************************************************************************)
(* JavaScript string primitives used by the server.                        *)
(***************************************************************************)
Undefined == -1

IsSpace(c) == c \in {" ", "\n"}

LowerChar(c) ==
  CASE c = "F" -> "f"
    [] c = "T" -> "t"
    [] OTHER -> c

toLowerCase(s) == [i \in 1..Len(s) |-> LowerChar(s[i])]

\* index of the first non-space character at or after i (Len(s)+1 if none)
RECURSIVE SkipSpaces(_, _)
SkipSpaces(s, i) ==
  IF i > Len(s) THEN i
  ELSE IF IsSpace(s[i]) THEN SkipSpaces(s, i + 1) ELSE i

\* String.prototype.split(/\s+/): an empty piece is produced before a leading
\* and after a trailing run of white space, and "" splits into [""].
RECURSIVE SplitRec(_, _, _, _)
SplitRec(s, i, cur, acc) ==
  IF i > Len(s) THEN Append(acc, cur)
  ELSE IF IsSpace(s[i]) THEN SplitRec(s, SkipSpaces(s, i), <<>>, Append(acc, cur))
  ELSE SplitRec(s, i + 1, Append(cur, s[i]), acc)

splitWhitespace(s) == SplitRec(s, 1, <<>>, <<>>)

RECURSIVE TrimEnd(_)
TrimEnd(s) ==
  IF Len(s) > 0 /\ IsSpace(s[Len(s)]) THEN TrimEnd(SubSeq(s, 1, Len(s) - 1)) ELSE s

trim(s) == TrimEnd(SubSeq(s, SkipSpaces(s, 1), Len(s)))

\* String.prototype.includes
includes(text, sub) ==
  \E i \in 1..(Len(text) - Len(sub) + 1) : SubSeq(text, i, i + Len(sub) - 1) = sub

(***************************************************************************)
(* new RegExp(word, 'g') for the characters of the model's alphabet:       *)
(* letters match themselves, "." matches any character but a newline, and  *)
(* "(" opens a group.  The alphabet has no ")", so a pattern with "(" is   *)
(* an unterminated group and the constructor throws a SyntaxError.         *)
(***************************************************************************)
RegExpThrows(word) == \E i \in 1..Len(word) : word[i] = "("

PatCharMatches(p, c) == IF p = "." THEN c # "\n" ELSE p = c

MatchesAt(text, word, i) ==
  /\ i + Len(word) - 1 <= Len(text)
  /\ \A j \in 1..Len(word) : PatCharMatches(word[j], text[i + j - 1])

\* (text.match(new RegExp(word, 'g')) || []).length : the matches are found
\* left to right and do not overlap
RECURSIVE CountFrom(_, _, _)
CountFrom(text, word, i) ==
  IF i + Len(word) - 1 > Len(text) THEN 0
  ELSE IF MatchesAt(text, word, i) THEN 1 + CountFrom(text, word, i + Len(word))
  ELSE CountFrom(text, word, i + 1)

matchCount(text, word) == CountFrom(text, word, 1)

RECURSIVE JoinSpace(_)
JoinSpace(ws) ==
  IF Len(ws) = 0 THEN <<>>
  ELSE IF Len(ws) = 1 THEN ws[1]
  ELSE ws[1] \o <<" ">> \o JoinSpace(Tail(ws))

SelectLonger2(ws) == SelectSeq(ws, LAMBDA w : Len(w) > 2)

(***************************************************************************)
(* optimalReranking (lines 433-511)                                        *)
(***************************************************************************)
queryWordsOf(query) == SelectLonger2(splitWhitespace(toLowerCase(query)))

queryBigramsOf(qw) ==
  [i \in 1..(IF Len(qw) >= 1 THEN Len(qw) - 1 ELSE 0) |-> JoinSpace(<<qw[i], qw[i + 1]>>)]

queryTrigramsOf(qw) ==
  [i \in 1..(IF Len(qw) >= 2 THEN Len(qw) - 2 ELSE 0) |->
      JoinSpace(<<qw[i], qw[i + 1], qw[i + 2]>>)]

RECURSIVE SumSeq(_)
SumSeq(s) == IF Len(s) = 0 THEN 0 ELSE s[1] + SumSeq(Tail(s))

\* a term score whose saturation grows with the square of tf
bm25TermSquaredSaturation(tf, docLength) ==
  (40000000 * tf) \div (800 * tf * tf + 3 * (100 + docLength))

\* normalizedTF * 2 with k1 = 1.5, b = 0.75, avgDocLength = 300:
\*   2 * tf * 2.5 / (tf + 1.5 * (0.25 + 0.75 * docLength / 300))
\* = 4000 * tf / (800 * tf + 3 * (100 + docLength)),   in units of 1/10000
bm25Term(tf, docLength) == (40000000 * tf) \div (800 * tf + 3 * (100 + docLength))

bm25Score(queryWords, chunkText) ==
  LET docLength == Len(splitWhitespace(chunkText))
  IN  SumSeq([i \in 1..Len(queryWords) |->
                bm25Term(matchCount(chunkText, queryWords[i]), docLength)])

\* a phrase score that counts bigrams only
phraseScoreBigramsOnly(queryWords, chunkText) ==
  LET bi == queryBigramsOf(queryWords)
  IN  SumSeq([i \in 1..Len(bi) |-> IF includes(chunkText, bi[i]) THEN 50000 ELSE 0])

phraseScore(queryWords, chunkText) ==
  LET tri == queryTrigramsOf(queryWords)
      bi  == queryBigramsOf(queryWords)
  IN  SumSeq([i \in 1..Len(tri) |-> IF includes(chunkText, tri[i]) THEN 100000 ELSE 0])
      + SumSeq([i \in 1..Len(bi) |-> IF includes(chunkText, bi[i]) THEN 50000 ELSE 0])

\* chunk.distance ? (1 - chunk.distance) * 10 : 0 ; distance in hundredths,
\* and a distance of 0 is falsy
semanticScore(distance) == IF distance # 0 THEN 1000 * (100 - distance) ELSE 0

\* chunk.metadata?.position ? Math.max(0, 3 - position * 0.1) : 0 ; a
\* position of 0 is falsy
positionScore(position) ==
  IF position # 0 /\ position # Undefined
  THEN (IF 30000 - 1000 * position > 0 THEN 30000 - 1000 * position ELSE 0)
  ELSE 0

Abs(x) == IF x < 0 THEN -x ELSE x

\* Math.max(0, 2 - Math.abs((chunk.metadata?.length || 1000) - 1200) / 500)
lengthScore(length) ==
  LET len  == IF length # 0 /\ length # Undefined THEN length ELSE 1000
      diff == Abs(len - 1200)
  IN  IF 20000 - 20 * diff > 0 THEN 20000 - 20 * diff ELSE 0

\* units of 1/1000000
combinedScoreOf(sem, bm, ph, pos, len) ==
  45 * sem + 30 * bm + 15 * ph + 5 * pos + 5 * len

\* Number.prototype.toFixed(2) of a value in units of 1/10000, in hundredths
toFixed2(v, unit) ==
  IF v >= 0 THEN (v + unit \div 2) \div unit ELSE -((-v + unit \div 2) \div unit)

\* the body of chunks.map (lines 446-503); retrievalIndex is the index of the
\* chunk in the argument and is not a field of the program's object
scoreChunk(queryWords, chunk, idx) ==
  LET chunkText == toLowerCase(chunk.text)
      bm   == bm25Score(queryWords, chunkText)
      ph   == phraseScore(queryWords, chunkText)
      sem  == semanticScore(chunk.distance)
      pos  == positionScore(chunk.metadata.position)
      len  == lengthScore(chunk.metadata.length)
      comb == combinedScoreOf(sem, bm, ph, pos, len)
  IN  [text |-> chunk.text, distance |-> chunk.distance, metadata |-> chunk.metadata,
       scores |-> [semantic |-> toFixed2(sem, 100), bm25 |-> toFixed2(bm, 100),
                   phrase |-> ph \div 10000, position |-> toFixed2(pos, 100),
                   length |-> toFixed2(len, 100), combined |-> toFixed2(comb, 10000)],
       combinedScore |-> comb,
       retrievalIndex |-> idx]

\* a descending sort that is not stable: an element goes before its equals
InsertDescBeforeEquals(sorted, x) ==
  LET k == Cardinality({i \in 1..Len(sorted) : sorted[i].combinedScore > x.combinedScore})
  IN  SubSeq(sorted, 1, k) \o <<x>> \o SubSeq(sorted, k + 1, Len(sorted))

\* Array.prototype.sort((a, b) => b.combinedScore - a.combinedScore): a stable
\* sort, descending
InsertDesc(sorted, x) ==
  LET k == Cardinality({i \in 1..Len(sorted) : sorted[i].combinedScore >= x.combinedScore})
  IN  SubSeq(sorted, 1, k) \o <<x>> \o SubSeq(sorted, k + 1, Len(sorted))

RECURSIVE SortFrom(_, _, _)
SortFrom(seq, i, acc) ==
  IF i > Len(seq) THEN acc ELSE SortFrom(seq, i + 1, InsertDesc(acc, seq[i]))

sortByCombined(seq) == SortFrom(seq, 1, <<>>)

\* a slice that keeps the whole array
sliceAll(seq, k) == seq

\* sorted.slice(0, topK)
slice0(seq, k) == SubSeq(seq, 1, IF k < Len(seq) THEN k ELSE Len(seq))

\* the RegExp constructor runs once per query word for each chunk, so it
\* throws exactly when there is a chunk and a query word it rejects
rerankThrows(query, chunks) ==
  /\ Len(chunks) > 0
  /\ \E i \in 1..Len(queryWordsOf(query)) : RegExpThrows(queryWordsOf(query)[i])

optimalReranking(query, chunks, topK) ==
  LET qw == queryWordsOf(query)
  IN  IF rerankThrows(query, chunks)
      THEN [threw |-> TRUE, value |-> <<>>]
      ELSE [threw |-> FALSE,
            value |-> slice0(sortByCombined([i \in 1..Len(chunks) |->
                                               scoreChunk(qw, chunks[i], i)]), topK)]

(***************************************************************************)
(* Program constants (lines 318-322, 376-377)                              *)
(***************************************************************************)
analyzeLimit == 5

initialFetch == 20

afterReranking == 5

(***************************************************************************)
(* Texts, file names and embeddings of the model.  An embedding is a       *)
(* direction in steps of 60 degrees; cosineDistance is 1 - cos of the      *)
(* angle between two directions, in hundredths.                            *)
(***************************************************************************)
tTheFeeDue == <<"t","h","e"," ","f","e","e"," ","d","u","e">>
tFeeDue    == <<"F","e","e"," ","d","u","e",".","\n">>
tFeeFee    == <<"f","e","e"," ","f","e","e">>
tNo        == <<"n","o">>

qTheFeeDue == <<"T","h","e"," ","f","e","e"," ","d","u","e">>
qFee       == <<"f","e","e">>
qSeeFee    == <<"(","s","e","e"," ","f","e","e">>
qEmpty     == <<>>

\* arguments of direct calls of optimalReranking
Queries == {qTheFeeDue, qFee, qSeeFee, qEmpty}

\* questions of /ask requests
Questions == {qTheFeeDue, qSeeFee, qEmpty}

\* pageContent strings the splitter emits
PageContents == {tFeeDue}

\* originalname of uploaded files
FileNames == {"A.pdf", "C.txt"}

\* path.extname(originalName).toLowerCase()
extname(name) ==
  CASE name = "A.pdf" -> ".pdf"
    [] name = "B.docx" -> ".docx"
    [] OTHER -> ".txt"

Embeddings == {0, 1}

cosineDistance(a, b) ==
  LET d == Abs(a - b)
  IN  CASE d = 0 -> 0
        [] d = 1 -> 50
        [] d = 2 -> 150
        [] OTHER -> 200

(***************************************************************************)
(* optimalChunkText (lines 375-412).  The argument is the sequence of      *)
(* pageContent strings RecursiveCharacterTextSplitter.createDocuments      *)
(* produced for the text; the splitter is a library.                       *)
(***************************************************************************)
IsSentenceEnd(c) == c \in {".", "!", "?"}

\* (doc.pageContent.match(/[.!?]+/g) || []).length : the number of runs
sentenceCountOf(s) ==
  Cardinality({i \in 1..Len(s) :
                 IsSentenceEnd(s[i]) /\ (i = 1 \/ ~IsSentenceEnd(s[i - 1]))})

optimalChunkText(documents) ==
  [k \in 1..Len(documents) |->
     [text |-> trim(documents[k]),
      metadata |-> [length |-> Len(trim(documents[k])),
                    position |-> k - 1,
                    sentenceCount |-> sentenceCountOf(documents[k]),
                    wordCount |-> Len(splitWhitespace(trim(documents[k])))]]]

(***************************************************************************)
(* JavaScript values at line 572: optimalChunkText is an async function    *)
(* and the handler does not await it, so chunks is a Promise.              *)
(***************************************************************************)
PromiseOf(v) == [kind |-> "promise", value |-> v]

ArrayOf(v) == [kind |-> "array", value |-> v]

\* const chunks = await optimalChunkText(extractedText);
chunksBindingAwaited(documents) == ArrayOf(optimalChunkText(documents))

\* const chunks = optimalChunkText(extractedText);
chunksBinding(documents) == PromiseOf(optimalChunkText(documents))

\* x.length : a Promise has no length property
lengthOf(x) == IF x.kind = "array" THEN Len(x.value) ELSE Undefined

\* i < n  where n may be undefined (undefined converts to NaN)
jsLess(i, n) == IF n = Undefined THEN FALSE ELSE i < n

\* the record pushed for chunk i (0-based) at lines 588-596
uploadRecord(sessionId, originalname, i, chunk, embedding) ==
  [id |-> <<sessionId, i>>,
   embedding |-> embedding,
   document |-> chunk.text,
   metadata |-> [sessionId |-> sessionId, filename |-> originalname, chunkIndex |-> i,
                 length |-> chunk.metadata.length, position |-> chunk.metadata.position,
                 sentenceCount |-> chunk.metadata.sentenceCount,
                 wordCount |-> chunk.metadata.wordCount]]

(***************************************************************************)
(* The Vector Index (ChromaDB collection).  A record id                    *)
(* `${sessionId}_chunk_${i}` is the pair <<sessionId, i>>.                 *)
(***************************************************************************)
IdBefore(a, b) == a[1] < b[1] \/ (a[1] = b[1] /\ a[2] < b[2])

\* collection.add: ids already present are left as they are
collectionAdd(idx, batch) ==
  idx \cup {batch[k] : k \in {j \in 1..Len(batch) :
                                \A rec \in idx : rec.id # batch[j].id}}

\* a delete that removes one of the ids only
collectionDeleteOne(idx, ids) ==
  IF ids = {} THEN idx
  ELSE {rec \in idx : rec.id # (CHOOSE id \in ids : \A other \in ids : ~IdBefore(other, id))}

\* collection.delete({ids})
collectionDelete(idx, ids) == {rec \in idx : rec.id \notin ids}

\* a query that drops the where filter
whereMatchesAll(rec, sessionId) == TRUE

\* where: { sessionId }  (0 stands for no filter)
whereMatches(rec, sessionId) == sessionId = 0 \/ rec.metadata.sessionId = sessionId

\* the elements of S in the order of the strict total order Before
SeqOfSet(S, Before(_, _)) ==
  [k \in 1..Cardinality(S) |->
     CHOOSE x \in S : Cardinality({y \in S : Before(y, x)}) = k - 1]

\* collection.get({where, limit}) in storage order
collectionGet(idx, sessionId) ==
  SeqOfSet({rec \in idx : whereMatches(rec, sessionId)},
           LAMBDA a, b : IdBefore(a.id, b.id))

\* collection.query({queryEmbeddings, nResults, where}): the nearest nResults
\* matching records by ascending cosine distance; the order of records at
\* the same distance is the index's choice (tieUp)
collectionQuery(idx, queryEmbedding, nResults, sessionId, tieUp) ==
  LET dist(rec) == cosineDistance(queryEmbedding, rec.embedding)
      Before(a, b) ==
        \/ dist(a) < dist(b)
        \/ dist(a) = dist(b) /\ (IF tieUp THEN IdBefore(a.id, b.id) ELSE IdBefore(b.id, a.id))
      all == SeqOfSet({rec \in idx : whereMatches(rec, sessionId)}, Before)
  IN  [k \in 1..(IF Len(all) < nResults THEN Len(all) ELSE nResults) |->
         [text |-> all[k].document, distance |-> dist(all[k]), metadata |-> all[k].metadata]]

(***************************************************************************)
(* The collection persists across runs of the server (getOrCreateCollection*)
(* returns the existing collection): at start it holds whole documents     *)
(* stored earlier in the format the upload handler writes.                 *)
(***************************************************************************)
PersistedSessions == {1, 2}

PersistedName(sid) == IF sid = 1 THEN "A.pdf" ELSE "B.docx"

PersistedDocs(sid) == IF sid = 1 THEN <<tTheFeeDue, tFeeDue>> ELSE <<tFeeFee, tFeeDue>>

PersistedEmbedding(sid, i) == IF sid = 1 THEN i ELSE 1 - i

PersistedBatch(sid) ==
  LET cs == optimalChunkText(PersistedDocs(sid))
  IN  {uploadRecord(sid, PersistedName(sid), k - 1, cs[k], PersistedEmbedding(sid, k - 1)) :
         k \in 1..Len(cs)}

\* req.file.filename : multer's random name for the n-th stored file
multerName(n) == Cardinality(PersistedSessions) + n

\* session ids a client may name: the stored ones and the first upload's
SessionIds == PersistedSessions \cup {multerName(1)}

(***************************************************************************)
(* Request slots                                                           *)
(***************************************************************************)
Reqs == 1..MaxReq

\* the handler's local variables, cleared when the response is sent
IdleLocals ==
  [originalname |-> "", chunks |-> [kind |-> "array", value |-> <<>>], i |-> 0,
   batch |-> <<>>, question |-> <<>>, questionEmbedding |-> 0,
   retrievedChunks |-> <<>>, ids |-> {}, context |-> <<>>]

IdleReq ==
  [op |-> "none", pc |-> "idle", sessionId |-> 0, documents |-> <<>>,
   rerankedChunks |-> <<>>, initialRetrieved |-> Undefined,
   generateCalls |-> 0, deleteCalls |-> 0,
   status |-> 0, error |-> "", answer |-> "", sources |-> <<>>,
   chunkCount |-> Undefined, sessions |-> <<>>, deletedCount |-> Undefined,
   clauses |-> "", afterReranking |-> Undefined, documentsSearched |-> Undefined]
  @@ IdleLocals

NoCall == [called |-> FALSE, query |-> <<>>, chunks |-> <<>>, topK |-> 0,
           threw |-> FALSE, value |-> <<>>]

NoChunkCall == [called |-> FALSE, text |-> <<>>, value |-> <<>>]

\* useState initial values (part_000 lines 25-33): no document, empty input
InitialUi ==
  [sessionId |-> 0, storedSessions |-> {}, inputMessage |-> <<>>,
   isAnalyzing |-> FALSE, outstanding |-> 0]

\* the process with app.listen called and collection assigned
Running == [pc |-> "running", collection |-> "ready"]

Init ==
  /\ index \in {UNION {PersistedBatch(s) : s \in P} : P \in SUBSET PersistedSessions}
  /\ req = [r \in Reqs |-> IdleReq]
  /\ uploadsSeen = 0
  /\ rerankCall = NoCall
  /\ chunkCall = NoChunkCall
  /\ server = [pc |-> "initChromaDB", collection |-> "undefined"]
  /\ ui = InitialUi

(***************************************************************************)
(* startServer (lines 833-840)                                             *)
(***************************************************************************)
\* lines 331-343 and 834: getOrCreateCollection returns and collection is
\* assigned, or it throws, initChromaDB rethrows and startServer ends
initChromaDB ==
  /\ server.pc = "initChromaDB"
  /\ \E ok \in BOOLEAN :
       IF ok
       THEN server' = [pc |-> "listen", collection |-> "ready"]
       ELSE server' = [server EXCEPT !.pc = "exited"]
  /\ UNCHANGED <<index, req, uploadsSeen, rerankCall, chunkCall, ui>>

\* a startServer that calls app.listen without awaiting initChromaDB
listenWithoutAwait ==
  /\ server.pc \in {"initChromaDB", "listen"}
  /\ server' = [server EXCEPT !.pc = "running"]
  /\ UNCHANGED <<index, req, uploadsSeen, rerankCall, chunkCall, ui>>

\* line 835: app.listen
listen ==
  /\ server.pc = "listen"
  /\ server' = [server EXCEPT !.pc = "running"]
  /\ UNCHANGED <<index, req, uploadsSeen, rerankCall, chunkCall, ui>>

\* a request reaches a handler only while the server listens
Accepts(r) == server.pc = "running" /\ req[r].pc = "idle"

\* res.status(...).send / res.json
Respond(r, fields) ==
  req' = [req EXCEPT ![r] = [pc |-> "done"] @@ fields @@ IdleLocals @@ req[r]]

\* catch: res.status(500).send(error.message)
Fail(r, message) == Respond(r, [status |-> 500, error |-> message])

\* the same in /ask and DELETE, whose sessionId is a local of the handler
FailScoped(r, message) ==
  Respond(r, [status |-> 500, error |-> message, sessionId |-> 0,
              rerankedChunks |-> <<>>])

Step(r, fields) == req' = [req EXCEPT ![r] = fields @@ req[r]]

Busy(r, pc) == req[r].pc = pc

(***************************************************************************)
(* POST /upload (lines 558-625)                                            *)
(***************************************************************************)
DocumentSeqs == UNION {[1..n -> PageContents] : n \in 0..MaxDocs}

\* lines 560-568: up to the call of extractTextFromFile
UploadBegin(r) ==
  /\ Accepts(r)
  /\ \E hasFile \in BOOLEAN, name \in FileNames :
       IF ~hasFile
       THEN /\ Respond(r, [op |-> "upload", status |-> 400])
            /\ UNCHANGED uploadsSeen
       ELSE /\ uploadsSeen < MaxUploads
            /\ uploadsSeen' = uploadsSeen + 1
            /\ Step(r, [op |-> "upload", pc |-> "extracting", originalname |-> name,
                        sessionId |-> multerName(uploadsSeen + 1)])
  /\ UNCHANGED <<index, rerankCall, chunkCall, server, ui>>

\* lines 349-366 and 568-582: the text is extracted (or extraction throws),
\* the chunker is called and the handler enters the loop
UploadExtracted(r) ==
  /\ Busy(r, "extracting")
  /\ \E ok \in BOOLEAN, documents \in DocumentSeqs :
       IF extname(req[r].originalname) \notin {".pdf", ".docx"}
       THEN Fail(r, "Could not read the file: Unsupported file type")
       ELSE IF ~ok
       THEN Fail(r, "Could not read the file: parse error")
       ELSE Step(r, [pc |-> "loop", documents |-> documents,
                     chunks |-> chunksBinding(documents), i |-> 0, batch |-> <<>>])
  /\ UNCHANGED <<index, uploadsSeen, rerankCall, chunkCall, server, ui>>

\* a loop over the resolved chunk list that stores each chunk as soon as it
\* is embedded
UploadLoopStoresEach(r) ==
  /\ Busy(r, "loop")
  /\ \E ok \in BOOLEAN, embedding \in Embeddings :
       IF req[r].i < Len(req[r].chunks.value)
       THEN IF ok
            THEN /\ index' = collectionAdd(index,
                                <<uploadRecord(req[r].sessionId, req[r].originalname,
                                               req[r].i, req[r].chunks.value[req[r].i + 1],
                                               embedding)>>)
                 /\ Step(r, [i |-> req[r].i + 1])
            ELSE /\ Fail(r, "Failed to get embedding from local AI")
                 /\ UNCHANGED index
       ELSE /\ Step(r, [pc |-> "adding"])
            /\ UNCHANGED index
  /\ UNCHANGED <<uploadsSeen, rerankCall, chunkCall, server, ui>>

\* lines 584-602: one test of i < chunks.length; when it holds, the round trip
\* of getEmbedding for chunk i and the pushes; when it fails, collection.add
\* is called
UploadLoop(r) ==
  /\ Busy(r, "loop")
  /\ \E ok \in BOOLEAN, embedding \in Embeddings :
       IF jsLess(req[r].i, lengthOf(req[r].chunks))
       THEN IF ok
            THEN Step(r, [i |-> req[r].i + 1,
                          batch |-> Append(req[r].batch,
                                      uploadRecord(req[r].sessionId, req[r].originalname,
                                                   req[r].i, req[r].chunks.value[req[r].i + 1],
                                                   embedding))])
            ELSE Fail(r, "Failed to get embedding from local AI")
       ELSE Step(r, [pc |-> "adding"])
  /\ UNCHANGED <<index, uploadsSeen, rerankCall, chunkCall, server, ui>>

\* lines 602-612: collection.add returns (all records stored) or throws.
\* Whether the client library accepts a call with empty arrays is not decided
\* by this program: it either stores nothing or rejects the empty id list.
UploadAdded(r) ==
  /\ Busy(r, "adding")
  /\ \E ok \in BOOLEAN, acceptsEmpty \in BOOLEAN :
       IF ~ok
       THEN /\ Fail(r, "index")
            /\ UNCHANGED index
       ELSE IF req[r].batch = <<>> /\ ~acceptsEmpty
       THEN /\ Fail(r, "Expected IDs to be a non-empty list")
            /\ UNCHANGED index
       ELSE /\ index' = collectionAdd(index, req[r].batch)
            /\ Step(r, [pc |-> "unlinking"])
  /\ UNCHANGED <<uploadsSeen, rerankCall, chunkCall, server, ui>>

\* lines 612-620: fs.unlink returns and the response is sent
UploadUnlinked(r) ==
  /\ Busy(r, "unlinking")
  /\ \E ok \in BOOLEAN :
       IF ok
       THEN Respond(r, [status |-> 200, chunkCount |-> lengthOf(req[r].chunks)])
       ELSE Fail(r, "unlink")
  /\ UNCHANGED <<index, uploadsSeen, rerankCall, chunkCall, server, ui>>

(***************************************************************************)
(* POST /ask (lines 628-727)                                               *)
(***************************************************************************)
\* no session id, a stored session, a session that was never stored
AskSessionIds == {0, 1, multerName(1)}

\* c.metadata?.filename || 'Unknown'
filenameOrUnknown(chunk) ==
  IF chunk.metadata.filename = "" THEN "Unknown" ELSE chunk.metadata.filename

\* lines 704-708
sourcesOf(rerankedChunks) ==
  [k \in 1..Len(rerankedChunks) |->
     [text |-> rerankedChunks[k].text,
      filename |-> filenameOrUnknown(rerankedChunks[k]),
      scores |-> rerankedChunks[k].scores]]

RECURSIVE JoinWith(_, _)
JoinWith(parts, separator) ==
  IF Len(parts) = 0 THEN <<>>
  ELSE IF Len(parts) = 1 THEN parts[1]
  ELSE parts[1] \o separator \o JoinWith(Tail(parts), separator)

\* a context that lists the chunks from the last to the first
contextOfLastFirst(rerankedChunks) ==
  JoinWith([k \in 1..Len(rerankedChunks) |->
              <<"[Source: ", filenameOrUnknown(rerankedChunks[Len(rerankedChunks) + 1 - k]),
                "]\n">> \o rerankedChunks[Len(rerankedChunks) + 1 - k].text],
           <<"\n\n---\n\n">>)

\* lines 695-698: the context is a sequence of pieces, a piece being a
\* character of a chunk text or one of the strings the template adds
contextOf(rerankedChunks) ==
  JoinWith([k \in 1..Len(rerankedChunks) |->
              <<"[Source: ", filenameOrUnknown(rerankedChunks[k]), "]\n">>
                \o rerankedChunks[k].text],
           <<"\n\n---\n\n">>)

\* lines 685-692: documentSources.size
documentSourcesSize(rerankedChunks) ==
  Cardinality({filenameOrUnknown(rerankedChunks[k]) : k \in 1..Len(rerankedChunks)})

\* lines 630-645
AskBegin(r) ==
  /\ Accepts(r)
  /\ \E question \in Questions, sessionId \in AskSessionIds :
       IF question = <<>>
       THEN Respond(r, [op |-> "ask", status |-> 400])
       ELSE Step(r, [op |-> "ask", pc |-> "embedding", question |-> question,
                     sessionId |-> sessionId])
  /\ UNCHANGED <<index, uploadsSeen, rerankCall, chunkCall, server, ui>>

\* lines 645-661: getEmbedding returns or throws; collection.query is called
AskEmbedded(r) ==
  /\ Busy(r, "embedding")
  /\ \E ok \in BOOLEAN, embedding \in Embeddings :
       IF ok
       THEN Step(r, [pc |-> "querying", questionEmbedding |-> embedding])
       ELSE FailScoped(r, "Failed to get embedding from local AI")
  /\ UNCHANGED <<index, uploadsSeen, rerankCall, chunkCall, server, ui>>

\* a handler without the test for an empty result
AskQueriedNoEmptyCheck(r) ==
  /\ Busy(r, "querying")
  /\ \E ok \in BOOLEAN, tieUp \in BOOLEAN :
       LET results == collectionQuery(index, req[r].questionEmbedding, initialFetch,
                                      req[r].sessionId, tieUp)
           reranked == optimalReranking(req[r].question, results, afterReranking)
       IN  IF ~ok THEN FailScoped(r, "index")
           ELSE IF reranked.threw
           THEN FailScoped(r, "Invalid regular expression")
           ELSE Step(r, [pc |-> "generating", retrievedChunks |-> results,
                         initialRetrieved |-> Len(results),
                         rerankedChunks |-> reranked.value,
                         context |-> contextOf(reranked.value),
                         generateCalls |-> req[r].generateCalls + 1])
  /\ UNCHANGED <<index, uploadsSeen, rerankCall, chunkCall, server, ui>>

\* lines 661-700: the query returns or throws; on an empty result the fixed
\* answer is sent, otherwise the chunks are reranked and askOllama is called
AskQueried(r) ==
  /\ Busy(r, "querying")
  /\ \E ok \in BOOLEAN, tieUp \in BOOLEAN :
       LET results == collectionQuery(index, req[r].questionEmbedding, initialFetch,
                                      req[r].sessionId, tieUp)
           reranked == optimalReranking(req[r].question, results, afterReranking)
       IN  IF ~ok THEN FailScoped(r, "index")
           ELSE IF Len(results) = 0
           THEN Respond(r, [status |-> 200, answer |-> "cannot find", sources |-> <<>>,
                            initialRetrieved |-> 0])
           ELSE IF reranked.threw
           THEN FailScoped(r, "Invalid regular expression")
           ELSE Step(r, [pc |-> "generating", retrievedChunks |-> results,
                         initialRetrieved |-> Len(results),
                         rerankedChunks |-> reranked.value,
                         context |-> contextOf(reranked.value),
                         generateCalls |-> req[r].generateCalls + 1])
  /\ UNCHANGED <<index, uploadsSeen, rerankCall, chunkCall, server, ui>>

\* lines 700-722
AskGenerated(r) ==
  /\ Busy(r, "generating")
  /\ \E ok \in BOOLEAN :
       IF ok
       THEN Respond(r, [status |-> 200, answer |-> "generated",
                        sources |-> sourcesOf(req[r].rerankedChunks),
                        afterReranking |-> Len(req[r].rerankedChunks),
                        documentsSearched |-> documentSourcesSize(req[r].rerankedChunks)])
       ELSE FailScoped(r, "Failed to get answer from local AI")
  /\ UNCHANGED <<index, uploadsSeen, rerankCall, chunkCall, server, ui>>

(***************************************************************************)
(* GET /sessions (lines 730-755)                                           *)
(***************************************************************************)
\* lines 733-750: the Map keeps the order in which session ids are first seen
RECURSIVE sessionsFrom(_, _, _)
sessionsFrom(metas, k, acc) ==
  IF k > Len(metas) THEN acc
  ELSE LET meta == metas[k]
           pos  == {j \in 1..Len(acc) : acc[j].sessionId = meta.sessionId}
       IN  IF meta.sessionId = 0 THEN sessionsFrom(metas, k + 1, acc)
           ELSE IF pos = {}
           THEN sessionsFrom(metas, k + 1,
                  Append(acc, [sessionId |-> meta.sessionId, filename |-> meta.filename,
                               chunkCount |-> 1]))
           ELSE sessionsFrom(metas, k + 1,
                  [j \in 1..Len(acc) |->
                     IF j \in pos THEN [acc[j] EXCEPT !.chunkCount = @ + 1] ELSE acc[j]])

\* a registry that counts the first chunk of a session twice
sessionsOfOffByOne(records) ==
  LET right == sessionsFrom([k \in 1..Len(records) |-> records[k].metadata], 1, <<>>)
  IN  [k \in 1..Len(right) |-> [right[k] EXCEPT !.chunkCount = @ + 1]]

sessionsOf(records) == sessionsFrom([k \in 1..Len(records) |-> records[k].metadata], 1, <<>>)

SessionsBegin(r) ==
  /\ Accepts(r)
  /\ Step(r, [op |-> "sessions", pc |-> "getting"])
  /\ UNCHANGED <<index, uploadsSeen, rerankCall, chunkCall, server, ui>>

SessionsGot(r) ==
  /\ Busy(r, "getting")
  /\ \E ok \in BOOLEAN :
       IF ok
       THEN Respond(r, [status |-> 200, sessions |-> sessionsOf(collectionGet(index, 0))])
       ELSE Fail(r, "index")
  /\ UNCHANGED <<index, uploadsSeen, rerankCall, chunkCall, server, ui>>

(***************************************************************************)
(* DELETE /session/:sessionId (lines 809-830)                              *)
(***************************************************************************)
DeleteBegin(r) ==
  /\ Accepts(r)
  /\ \E sessionId \in SessionIds :
       Step(r, [op |-> "delete", pc |-> "finding", sessionId |-> sessionId])
  /\ UNCHANGED <<index, uploadsSeen, rerankCall, chunkCall, server, ui>>

\* a handler that deletes whatever the get returned, without the length test
DeleteFoundNoLengthCheck(r) ==
  /\ Busy(r, "finding")
  /\ \E ok \in BOOLEAN :
       LET results == collectionGet(index, req[r].sessionId)
           ids == {results[k].id : k \in 1..Len(results)}
       IN  IF ~ok THEN FailScoped(r, "index")
           ELSE Step(r, [pc |-> "deleting", ids |-> ids,
                         deleteCalls |-> req[r].deleteCalls + 1])
  /\ UNCHANGED <<index, uploadsSeen, rerankCall, chunkCall, server, ui>>

\* lines 814-825: collection.get returns or throws; delete is called or 404
\* is sent
DeleteFound(r) ==
  /\ Busy(r, "finding")
  /\ \E ok \in BOOLEAN :
       LET results == collectionGet(index, req[r].sessionId)
           ids == {results[k].id : k \in 1..Len(results)}
       IN  IF ~ok THEN FailScoped(r, "index")
           ELSE IF Cardinality(ids) > 0
           THEN Step(r, [pc |-> "deleting", ids |-> ids,
                         deleteCalls |-> req[r].deleteCalls + 1])
           ELSE Respond(r, [status |-> 404])
  /\ UNCHANGED <<index, uploadsSeen, rerankCall, chunkCall, server, ui>>

\* lines 819-822: collection.delete returns or throws
DeleteDone(r) ==
  /\ Busy(r, "deleting")
  /\ \E ok \in BOOLEAN :
       IF ok
       THEN /\ index' = collectionDelete(index, req[r].ids)
            /\ Respond(r, [status |-> 200, deletedCount |-> Cardinality(req[r].ids)])
       ELSE /\ FailScoped(r, "index")
            /\ UNCHANGED index
  /\ UNCHANGED <<uploadsSeen, rerankCall, chunkCall, server, ui>>

(***************************************************************************)
(* POST /analyze (lines 758-806)                                           *)
(***************************************************************************)
\* lines 760-764
AnalyzeBegin(r) ==
  /\ Accepts(r)
  /\ \E sessionId \in AskSessionIds :
       IF sessionId = 0
       THEN Respond(r, [op |-> "analyze", status |-> 400])
       ELSE Step(r, [op |-> "analyze", pc |-> "sampling", sessionId |-> sessionId])
  /\ UNCHANGED <<index, uploadsSeen, rerankCall, chunkCall, server, ui>>

\* a handler that prompts the model with whatever the get returned
AnalyzeSampledNoEmptyCheck(r) ==
  /\ Busy(r, "sampling")
  /\ \E ok \in BOOLEAN :
       IF ~ok THEN FailScoped(r, "index")
       ELSE Step(r, [pc |-> "analyzing", generateCalls |-> req[r].generateCalls + 1])
  /\ UNCHANGED <<index, uploadsSeen, rerankCall, chunkCall, server, ui>>

\* lines 769-792: collection.get returns or throws; 404 on an empty result,
\* otherwise the generation endpoint is called
AnalyzeSampled(r) ==
  /\ Busy(r, "sampling")
  /\ \E ok \in BOOLEAN :
       LET results == slice0(collectionGet(index, req[r].sessionId), analyzeLimit)
       IN  IF ~ok THEN FailScoped(r, "index")
           ELSE IF Len(results) = 0
           THEN Respond(r, [status |-> 404, sessionId |-> 0])
           ELSE Step(r, [pc |-> "analyzing",
                         generateCalls |-> req[r].generateCalls + 1])
  /\ UNCHANGED <<index, uploadsSeen, rerankCall, chunkCall, server, ui>>

\* lines 788-805: the generation call returns or throws; its text parses as
\* JSON or does not
AnalyzeGenerated(r) ==
  /\ Busy(r, "analyzing")
  /\ \E ok \in BOOLEAN, parses \in BOOLEAN :
       IF ~ok THEN FailScoped(r, "Request failed")
       ELSE IF parses
       THEN Respond(r, [status |-> 200, clauses |-> "parsed", sessionId |-> 0])
       ELSE Respond(r, [status |-> 200, clauses |-> "none",
                        error |-> "Could not parse legal analysis", sessionId |-> 0])
  /\ UNCHANGED <<index, uploadsSeen, rerankCall, chunkCall, server, ui>>

\* the response has been delivered; the slot serves the next request
Retire(r) ==
  /\ Busy(r, "done")
  /\ req' = [req EXCEPT ![r] = IdleReq]
  /\ UNCHANGED <<index, uploadsSeen, rerankCall, chunkCall, server, ui>>

Next ==
  \/ initChromaDB
  \/ listen
  \/ \E r \in Reqs :
    \/ UploadBegin(r) \/ UploadExtracted(r) \/ UploadLoop(r) \/ UploadAdded(r)
    \/ UploadUnlinked(r)
    \/ AskBegin(r) \/ AskEmbedded(r) \/ AskQueried(r) \/ AskGenerated(r)
    \/ SessionsBegin(r) \/ SessionsGot(r)
    \/ DeleteBegin(r) \/ DeleteFound(r) \/ DeleteDone(r)
    \/ AnalyzeBegin(r) \/ AnalyzeSampled(r) \/ AnalyzeGenerated(r)
    \/ Retire(r)

Spec == Init /\ [][Next]_vars

(***************************************************************************)
(* Direct calls of optimalReranking: the arguments are drawn at the start  *)
(* and the call is made once.                                              *)
(***************************************************************************)
CandTexts == {tTheFeeDue, tFeeFee}

CandDistances == {0, 50}

CandPositions == {0, 1}

Candidates ==
  {[text |-> t, distance |-> d,
    metadata |-> [sessionId |-> 1, filename |-> "A.pdf", chunkIndex |-> p,
                  length |-> Len(t), position |-> p, sentenceCount |-> 0,
                  wordCount |-> Len(splitWhitespace(t))]] :
     t \in CandTexts, d \in CandDistances, p \in CandPositions}

CandidateLists == UNION {[1..n -> Candidates] : n \in 0..MaxCands}

InitRerank ==
  /\ index = {}
  /\ req = [r \in Reqs |-> IdleReq]
  /\ uploadsSeen = 0
  /\ chunkCall = NoChunkCall
  /\ server = Running
  /\ ui = InitialUi
  /\ \E query \in Queries, chunks \in CandidateLists, topK \in 0..MaxTopK :
       rerankCall = [called |-> FALSE, query |-> query, chunks |-> chunks,
                     topK |-> topK, threw |-> FALSE, value |-> <<>>]

RerankCall ==
  /\ ~rerankCall.called
  /\ LET res == optimalReranking(rerankCall.query, rerankCall.chunks, rerankCall.topK)
     IN  rerankCall' = [rerankCall EXCEPT !.called = TRUE, !.threw = res.threw,
                                          !.value = res.value]
  /\ UNCHANGED <<index, req, uploadsSeen, chunkCall, server, ui>>

NextRerank == RerankCall

SpecRerank == InitRerank /\ [][NextRerank]_vars

(***************************************************************************)
(* GET /sessions over a collection that the program did not write alone:   *)
(* the index is a ChromaDB server shared with any other writer, so the     *)
(* chunks of one session id may carry different filenames.                 *)
(***************************************************************************)
RegistryRecords ==
  {[rec EXCEPT !.metadata.filename = name] :
     rec \in UNION {PersistedBatch(s) : s \in PersistedSessions},
     name \in {PersistedName(s) : s \in PersistedSessions}}

InitRegistry ==
  /\ index \in {idx \in SUBSET RegistryRecords :
                  \A a, b \in idx : a.id = b.id => a = b}
  /\ req = [r \in Reqs |-> IdleReq]
  /\ uploadsSeen = 0
  /\ rerankCall = NoCall
  /\ chunkCall = NoChunkCall
  /\ server = Running
  /\ ui = InitialUi

NextRegistry ==
  \E r \in Reqs : SessionsBegin(r) \/ SessionsGot(r) \/ Retire(r)

SpecRegistry == InitRegistry /\ [][NextRegistry]_vars

(***************************************************************************)
(* Direct calls of optimalChunkText on a text within the chunk size.  The  *)
(* splitter is a library; for such a text it emits the whole text as one   *)
(* document, and none for the empty text.                                  *)
(***************************************************************************)
OPTIMAL_CHUNK_SIZE == 1200

TextChars == {"a", ".", " ", "\n"}

ChunkTexts == UNION {[1..n -> TextChars] : n \in 0..MaxTextLen}

\* textSplitter.createDocuments([text]) for text.length <= chunkSize
createDocuments(text) == IF text = <<>> THEN <<>> ELSE <<text>>

InitChunk ==
  /\ index = {}
  /\ req = [r \in Reqs |-> IdleReq]
  /\ uploadsSeen = 0
  /\ rerankCall = NoCall
  /\ server = Running
  /\ ui = InitialUi
  /\ \E text \in ChunkTexts :
       chunkCall = [called |-> FALSE, text |-> text, value |-> <<>>]

ChunkCall ==
  /\ ~chunkCall.called
  /\ Len(chunkCall.text) <= OPTIMAL_CHUNK_SIZE
  /\ chunkCall' = [chunkCall EXCEPT !.called = TRUE,
                     !.value = optimalChunkText(createDocuments(chunkCall.text))]
  /\ UNCHANGED <<index, req, uploadsSeen, rerankCall, server, ui>>

NextChunk == ChunkCall

SpecChunk == InitChunk /\ [][NextChunk]_vars

(***************************************************************************)
(* Direct calls of optimalReranking on two candidates that differ in their *)
(* text only; the texts are made of up to MaxWords words.                  *)
(***************************************************************************)
wFee == <<"f","e","e">>
wDue == <<"d","u","e">>
wNo  == <<"n","o">>

BmWords == {wFee, wDue, wNo}

BmTexts == {JoinSpace(ws) : ws \in UNION {[1..n -> BmWords] : n \in 1..MaxWords}}

BmQueries == {qTheFeeDue, qFee}

BmCandidate(t) ==
  [text |-> t, distance |-> 50,
   metadata |-> [sessionId |-> 1, filename |-> "A.pdf", chunkIndex |-> 1,
                 length |-> 1000, position |-> 1, sentenceCount |-> 0,
                 wordCount |-> 0]]

InitBm25 ==
  /\ index = {}
  /\ req = [r \in Reqs |-> IdleReq]
  /\ uploadsSeen = 0
  /\ chunkCall = NoChunkCall
  /\ server = Running
  /\ ui = InitialUi
  /\ \E query \in BmQueries, t1 \in BmTexts, t2 \in BmTexts :
       rerankCall = [called |-> FALSE, query |-> query,
                     chunks |-> <<BmCandidate(t1), BmCandidate(t2)>>,
                     topK |-> 2, threw |-> FALSE, value |-> <<>>]

SpecBm25 == InitBm25 /\ [][NextRerank]_vars

(***************************************************************************)
(* Direct calls of optimalReranking on candidates whose texts hold the     *)
(* same words in different orders.                                         *)
(***************************************************************************)
tDueFeeThe == <<"d","u","e"," ","f","e","e"," ","t","h","e">>
tFeeTheFeeDue == <<"F","e","e"," ","t","h","e"," ","f","e","e"," ","d","u","e">>
tFeeDueFeeThe == <<"f","e","e"," ","d","u","e"," ","f","e","e"," ","t","h","e">>

qTheFeeDueFee == <<"t","h","e"," ","f","e","e"," ","d","u","e"," ","F","E","E">>

PhraseTexts == {tTheFeeDue, tDueFeeThe, tFeeTheFeeDue, tFeeDueFeeThe}

PhraseQueries == {qTheFeeDue, qTheFeeDueFee}

PhraseCandidates ==
  {[text |-> t, distance |-> d,
    metadata |-> [sessionId |-> 1, filename |-> "A.pdf", chunkIndex |-> 1,
                  length |-> Len(t), position |-> 1, sentenceCount |-> 0,
                  wordCount |-> Len(splitWhitespace(t))]] :
     t \in PhraseTexts, d \in CandDistances}

InitPhrase ==
  /\ index = {}
  /\ req = [r \in Reqs |-> IdleReq]
  /\ uploadsSeen = 0
  /\ chunkCall = NoChunkCall
  /\ server = Running
  /\ ui = InitialUi
  /\ \E query \in PhraseQueries, topK \in 0..MaxTopK,
        chunks \in UNION {[1..n -> PhraseCandidates] : n \in 0..MaxCands} :
       rerankCall = [called |-> FALSE, query |-> query, chunks |-> chunks,
                     topK |-> topK, threw |-> FALSE, value |-> <<>>]

SpecPhrase == InitPhrase /\ [][NextRerank]_vars

(***************************************************************************)
(* POST /ask, one request at a time, over a collection that holds the      *)
(* document of session 1 and a stored document of up to MaxChunks chunks,  *)
(* so that more than initialFetch chunks can be eligible.                  *)
(***************************************************************************)
LargeSession == multerName(MaxUploads) + 1

LargeBatch(n) ==
  LET cs == optimalChunkText([k \in 1..n |-> IF k % 2 = 0 THEN tFeeDue ELSE tFeeFee])
  IN  {uploadRecord(LargeSession, "B.docx", k - 1, cs[k], k % 2) : k \in 1..n}

InitRetrieval ==
  /\ \E n \in 0..MaxChunks : index = PersistedBatch(1) \cup LargeBatch(n)
  /\ req = [r \in Reqs |-> IdleReq]
  /\ uploadsSeen = 0
  /\ rerankCall = NoCall
  /\ chunkCall = NoChunkCall
  /\ server = Running
  /\ ui = InitialUi

NextRetrieval ==
  \E r \in {1} :
    \/ AskBegin(r) \/ AskEmbedded(r) \/ AskQueried(r) \/ AskGenerated(r)
    \/ Retire(r)

SpecRetrieval == InitRetrieval /\ [][NextRetrieval]_vars

(***************************************************************************)
(* The React component App (part_000): the state that the two question     *)
(* handlers read and write, and the number of /ask fetches they have       *)
(* started that have not settled.                                          *)
(***************************************************************************)
UiInputs == {<<>>, <<" ">>, qFee}

InitUi ==
  /\ index = {}
  /\ req = [r \in Reqs |-> IdleReq]
  /\ uploadsSeen = 0
  /\ rerankCall = NoCall
  /\ chunkCall = NoChunkCall
  /\ server = Running
  /\ ui = InitialUi

UiFrame == UNCHANGED <<index, req, uploadsSeen, rerankCall, chunkCall, server>>

\* lines 39-49: the fetch of /sessions returns the stored sessions
loadStoredSessions ==
  /\ \E sessions \in SUBSET PersistedSessions :
       ui' = [ui EXCEPT !.storedSessions = sessions]
  /\ UiFrame

\* lines 154-161: a card of the library is clicked (home view)
handleLoadDocument ==
  /\ ui.sessionId = 0
  /\ \E session \in ui.storedSessions : ui' = [ui EXCEPT !.sessionId = session]
  /\ UiFrame

\* lines 163-169: "Back to Library" (chat view)
handleNewDocument ==
  /\ ui.sessionId # 0
  /\ ui' = [ui EXCEPT !.sessionId = 0]
  /\ UiFrame

\* the search box is rendered in the home view when sessions are stored
\* (lines 193, 242), the chat input in the chat view (line 377)
SearchBoxShown == ui.sessionId = 0 /\ ui.storedSessions # {}

ChatInputShown == ui.sessionId # 0

\* onChange of either input (lines 254, 381)
setInputMessage ==
  /\ SearchBoxShown \/ ChatInputShown
  /\ \E text \in UiInputs : text # ui.inputMessage /\ ui' = [ui EXCEPT !.inputMessage = text]
  /\ UiFrame

\* lines 90 and 123 (the sessionId half of line 123 holds whenever the chat
\* input is shown): the handler goes on past its early return
PassesEarlyReturn == trim(ui.inputMessage) # <<>> /\ ui.outstanding < MaxInFlight

\* lines 92-100 and 125-133: the input is cleared, isAnalyzing is set and
\* the request is sent
askStarted ==
  [ui EXCEPT !.inputMessage = <<>>, !.isAnalyzing = TRUE, !.outstanding = @ + 1]

\* lines 259-262, 386-389: disabled={!inputMessage.trim() || isAnalyzing}
ButtonEnabled == trim(ui.inputMessage) # <<>> /\ ~ui.isAnalyzing

\* line 260: onClick={handleGlobalSearch}
SearchButtonClick ==
  /\ SearchBoxShown /\ ButtonEnabled
  /\ PassesEarlyReturn
  /\ ui' = askStarted
  /\ UiFrame

\* line 256: onKeyPress={(e) => e.key === 'Enter' && handleGlobalSearch()}
SearchEnterKey ==
  /\ SearchBoxShown
  /\ PassesEarlyReturn
  /\ ui' = askStarted
  /\ UiFrame

\* line 387: onClick={handleSendQuestion}
SendButtonClick ==
  /\ ChatInputShown /\ ButtonEnabled
  /\ PassesEarlyReturn
  /\ ui' = askStarted
  /\ UiFrame

\* line 383: onKeyPress={(e) => e.key === 'Enter' && handleSendQuestion()}
SendEnterKey ==
  /\ ChatInputShown
  /\ PassesEarlyReturn
  /\ ui' = askStarted
  /\ UiFrame

\* lines 100-118, 133-151: the fetch settles (a 2xx answer, another status,
\* or a rejected fetch) and finally runs setIsAnalyzing(false)
askSettled ==
  /\ ui.outstanding > 0
  /\ ui' = [ui EXCEPT !.outstanding = @ - 1, !.isAnalyzing = FALSE]
  /\ UiFrame

NextUi ==
  \/ loadStoredSessions \/ handleLoadDocument \/ handleNewDocument
  \/ setInputMessage
  \/ SearchButtonClick \/ SearchEnterKey \/ SendButtonClick \/ SendEnterKey
  \/ askSettled

SpecUi == InitUi /\ [][NextUi]_vars

(***************************************************************************)
(* Properties                                                              *)
(***************************************************************************)
Min(a, b) == IF a < b THEN a ELSE b

ChunksOfSession(idx, sessionId) == {rec \in idx : rec.metadata.sessionId = sessionId}

Responds(r, from, status) ==
  req[r].pc = from /\ req'[r].pc = "done" /\ req'[r].status = status

\* C1: when an upload of a document that chunks into n chunks responds with
\* success, the response carries chunkCount = n and the session id, and the
\* index holds exactly n chunks of that session id.
C1_UploadStoresEveryChunk ==
  [][\A r \in Reqs :
       Responds(r, "unlinking", 200) =>
         LET n == Len(optimalChunkText(req'[r].documents))
         IN  /\ req'[r].chunkCount = n
             /\ req'[r].sessionId = req[r].sessionId
             /\ Cardinality(ChunksOfSession(index', req'[r].sessionId)) = n]_vars

SessionsMatchIndex(sessions, idx) ==
  /\ \A i, j \in 1..Len(sessions) :
       i # j => sessions[i].sessionId # sessions[j].sessionId
  /\ {sessions[k].sessionId : k \in 1..Len(sessions)}
       = {rec.metadata.sessionId : rec \in idx}
  /\ \A k \in 1..Len(sessions) :
       sessions[k].chunkCount
         = Cardinality(ChunksOfSession(idx, sessions[k].sessionId))

\* C2: a successful GET /sessions returns exactly one record per session id
\* present in the index, each with chunkCount equal to the number of indexed
\* chunks of that session id.
C2_SessionsMatchIndex ==
  [][\A r \in Reqs :
       Responds(r, "getting", 200) => SessionsMatchIndex(req'[r].sessions, index)]_vars

\* a session list sent after a delete: one session is gone, the other is
\* listed with both its chunks
C2_Witness ==
  \E r, d \in Reqs :
    /\ req[r].op = "sessions" /\ req[r].pc = "done" /\ req[r].status = 200
    /\ Len(req[r].sessions) = 1 /\ req[r].sessions[1].chunkCount = 2
    /\ req[d].op = "delete" /\ req[d].pc = "done" /\ req[d].status = 200
    /\ req[d].sessionId # req[r].sessions[1].sessionId

C4_SessionIsolation ==
  [][\A r \in Reqs :
       /\ (req[r].pc = "querying" /\ req'[r].pc = "generating") =>
            LET S == req[r].sessionId
                eligible == IF S = 0 THEN index ELSE ChunksOfSession(index, S)
            IN  /\ \A k \in 1..Len(req'[r].rerankedChunks) :
                     \E rec \in eligible :
                       /\ rec.document = req'[r].rerankedChunks[k].text
                       /\ rec.metadata = req'[r].rerankedChunks[k].metadata
                /\ req'[r].initialRetrieved = Min(initialFetch, Cardinality(eligible))
       /\ Responds(r, "generating", 200) =>
            /\ Len(req'[r].sources) = Len(req[r].rerankedChunks)
            /\ \A k \in 1..Len(req'[r].sources) :
                 /\ req'[r].sources[k].text = req[r].rerankedChunks[k].text
                 /\ req'[r].sources[k].filename = req[r].rerankedChunks[k].metadata.filename
                 /\ req[r].sessionId # 0 =>
                      req[r].rerankedChunks[k].metadata.sessionId = req[r].sessionId]_vars

\* an answer scoped to session 1 with sources, while the index also holds
\* chunks of another session
C4_Witness ==
  \E r \in Reqs :
    /\ req[r].op = "ask" /\ req[r].pc = "done" /\ req[r].status = 200
    /\ req[r].sessionId = 1 /\ Len(req[r].sources) > 0
    /\ ChunksOfSession(index, 2) # {}

NonIncreasing(value) ==
  \A k \in 1..(Len(value) - 1) : value[k].combinedScore >= value[k + 1].combinedScore

\* C5: for every query, candidate list and k >= 0, optimalReranking returns
\* exactly min(k, |candidates|) results with non-increasing combined scores.
C5_TopKSorted ==
  rerankCall.called =>
    /\ ~rerankCall.threw
    /\ Len(rerankCall.value) = Min(rerankCall.topK, Len(rerankCall.chunks))
    /\ NonIncreasing(rerankCall.value)

CallScore(i) ==
  scoreChunk(queryWordsOf(rerankCall.query), rerankCall.chunks[i], i).combinedScore

RankOf(i) ==
  LET at == {k \in 1..Len(rerankCall.value) : rerankCall.value[k].retrievalIndex = i}
  IN  IF at = {} THEN 0 ELSE CHOOSE k \in at : TRUE

\* C6: of two candidates with equal combined score, the one earlier in the
\* candidate list comes earlier in the result, and is the one kept when the
\* top-K cut falls between them.
C6_TiesKeepOrder ==
  (rerankCall.called /\ ~rerankCall.threw) =>
    \A i, j \in 1..Len(rerankCall.chunks) :
      (i < j /\ CallScore(i) = CallScore(j) /\ RankOf(j) # 0) =>
        (RankOf(i) # 0 /\ RankOf(i) < RankOf(j))

\* two different candidates tie, and the cut keeps the earlier one only
C6_Witness ==
  /\ rerankCall.called /\ ~rerankCall.threw
  /\ \E i, j \in 1..Len(rerankCall.chunks) :
       /\ i < j /\ rerankCall.chunks[i] # rerankCall.chunks[j]
       /\ CallScore(i) = CallScore(j)
       /\ RankOf(i) # 0 /\ RankOf(j) = 0

\* C8: when retrieval yields no candidate, the ask request ends with status
\* 200, the fixed "cannot find" answer and no sources, and the Generation
\* Client is not called; and optimalReranking of an empty candidate list
\* returns the empty list without throwing.
C8_EmptyRetrieval ==
  /\ \A r \in Reqs :
       (req[r].op = "ask" /\ req[r].initialRetrieved = 0) =>
         /\ req[r].pc = "done" /\ req[r].status = 200
         /\ req[r].answer = "cannot find" /\ req[r].sources = <<>>
         /\ req[r].generateCalls = 0
  /\ \A query \in Queries, topK \in 0..MaxTopK :
       optimalReranking(query, <<>>, topK) = [threw |-> FALSE, value |-> <<>>]

\* an ask scoped to a session with no chunk in a non-empty index
C8_Witness ==
  \E r \in Reqs :
    /\ req[r].op = "ask" /\ req[r].initialRetrieved = 0 /\ req[r].pc = "done"
    /\ req[r].sessionId # 0 /\ index # {}

\* C9: when DELETE /session/S succeeds, no chunk of session S is left in the
\* index (the session list does not name S and a query scoped to S returns
\* nothing) and the chunks of every other session are as before.
C9_DeleteFrame ==
  [][\A r \in Reqs :
       Responds(r, "deleting", 200) =>
         LET S == req[r].sessionId
             listed == sessionsOf(collectionGet(index', 0))
         IN  /\ ChunksOfSession(index', S) = {}
             /\ \A k \in 1..Len(listed) : listed[k].sessionId # S
             /\ \A e \in Embeddings, tieUp \in BOOLEAN :
                  collectionQuery(index', e, initialFetch, S, tieUp) = <<>>
             /\ index' \ ChunksOfSession(index', S) = index \ ChunksOfSession(index, S)]_vars

\* a session of two chunks has been deleted and another session is indexed
C9_Witness ==
  \E r \in Reqs :
    /\ req[r].op = "delete" /\ req[r].pc = "done" /\ req[r].status = 200
    /\ req[r].deletedCount = 2
    /\ ChunksOfSession(index, req[r].sessionId) = {} /\ index # {}

\* C10: when collection.get finds no chunk of session S, DELETE /session/S
\* ends with status 404, no delete is issued and the index is unchanged.
C10_DeleteNotFound ==
  [][\A r \in Reqs :
       (/\ req[r].pc = "finding" /\ req'[r].pc # "finding"
        /\ ChunksOfSession(index, req[r].sessionId) = {}
        /\ ~(req'[r].status = 500 /\ req'[r].error = "index")) =>
         /\ req'[r].pc = "done" /\ req'[r].status = 404
         /\ req'[r].deleteCalls = 0
         /\ index' = index]_vars

\* a 404 for a session absent from a non-empty index
C10_Witness ==
  \E r \in Reqs :
    /\ req[r].op = "delete" /\ req[r].pc = "done" /\ req[r].status = 404
    /\ req[r].deleteCalls = 0 /\ index # {}

\* the step of /ask or /analyze that receives the result of the scoped read
\* for a session id S # 0 that no indexed chunk carries
UnknownSessionStep(r, op, from) ==
  /\ req[r].op = op /\ req[r].pc = from /\ req'[r].pc # from
  /\ req[r].sessionId # 0
  /\ ChunksOfSession(index, req[r].sessionId) = {}
  /\ ~(req'[r].status = 500 /\ req'[r].error = "index")

IsSuccess(status) == status >= 200 /\ status <= 299

\* C11 as stated: /ask and /analyze called with a session id that matches no
\* indexed chunk both end with a NotFound (non-2xx) response.
C11_UnknownSessionNotFound ==
  [][\A r \in Reqs :
       (UnknownSessionStep(r, "ask", "querying")
          \/ UnknownSessionStep(r, "analyze", "sampling")) =>
         /\ req'[r].pc = "done"
         /\ ~IsSuccess(req'[r].status)]_vars

\* C11 amended: with a session id that matches no indexed chunk, /analyze
\* ends with 404 and calls no generation, while /ask ends with status 200,
\* the fixed "cannot find" answer and no sources.
C11_UnknownSessionOutcome ==
  [][\A r \in Reqs :
       /\ UnknownSessionStep(r, "analyze", "sampling") =>
            /\ req'[r].pc = "done" /\ req'[r].status = 404
            /\ req'[r].generateCalls = 0 /\ index' = index
       /\ UnknownSessionStep(r, "ask", "querying") =>
            /\ req'[r].pc = "done" /\ req'[r].status = 200
            /\ req'[r].answer = "cannot find" /\ req'[r].sources = <<>>
            /\ req'[r].generateCalls = 0 /\ index' = index]_vars

\* /analyze has answered 404 while the index holds another session's chunks
C11_Witness ==
  \E r \in Reqs :
    /\ req[r].op = "analyze" /\ req[r].pc = "done" /\ req[r].status = 404
    /\ req[r].generateCalls = 0 /\ index # {}

\* C12: an upload whose extracted text is empty (the splitter emits no
\* document) does not end in an error response, unless the index or the file
\* system is unavailable, and leaves the index unchanged.
C12_EmptyTextNonFatal ==
  [][\A r \in Reqs :
       (/\ req[r].op = "upload" /\ req[r].pc \in {"loop", "adding", "unlinking"}
        /\ req[r].documents = <<>> /\ req'[r] # req[r]) =>
         /\ index' = index
         /\ (req'[r].pc = "done" /\ req'[r].error \notin {"index", "unlink"}) =>
              IsSuccess(req'[r].status)]_vars

\* the chunks of some session id in idx disagree on the filename
FilenamesDisagree(idx) ==
  \E a, b \in idx :
    a.metadata.sessionId = b.metadata.sessionId /\ a.metadata.filename # b.metadata.filename

\* C13: when the chunks of one session id do not all carry the same filename,
\* GET /sessions does not answer with a session list that names one of the
\* filenames: it ends with an error response.
C13_FilenameMismatchSurfaced ==
  [][\A r \in Reqs :
       (/\ req[r].pc = "getting" /\ req'[r].pc = "done"
        /\ FilenamesDisagree(index)
        /\ ~(req'[r].status = 500 /\ req'[r].error = "index")) =>
         ~IsSuccess(req'[r].status)]_vars

\* the status class of the InvalidInput kind: the request itself is at fault
IsClientError(status) == status >= 400 /\ status <= 499

\* C14: a missing file and a missing question are answered as invalid input,
\* and so is an upload of a file in an unsupported format: its response is a
\* client-error response, not the status 500 response that embedding,
\* generation and index failures produce.
C14_InvalidInputKind ==
  [][\A r \in Reqs :
       /\ (/\ req[r].pc = "idle" /\ req'[r].pc = "done"
           /\ req'[r].op \in {"upload", "ask"}) => req'[r].status = 400
       /\ (/\ req[r].pc = "extracting" /\ req'[r] # req[r]
           /\ extname(req[r].originalname) \notin {".pdf", ".docx"}) =>
            /\ req'[r].pc = "done"
            /\ IsClientError(req'[r].status)]_vars

\* C15: when an upload of a document with n chunks has succeeded, the
\* positions stored for its session are exactly 0..n-1, and for every i the
\* index holds one record with id <sessionId>_chunk_<i>, and that record
\* carries position i, chunkIndex i and the text of the i-th emitted chunk.
C15_PositionsContiguous ==
  [][\A r \in Reqs :
       Responds(r, "unlinking", 200) =>
         LET S == req[r].sessionId
             chunks == optimalChunkText(req[r].documents)
             stored == ChunksOfSession(index', S)
         IN  /\ {rec.metadata.position : rec \in stored} = 0..(Len(chunks) - 1)
             /\ \A i \in 0..(Len(chunks) - 1) :
                  \E rec \in stored :
                    /\ rec.id = <<S, i>>
                    /\ rec.metadata.position = i /\ rec.metadata.chunkIndex = i
                    /\ rec.document = chunks[i + 1].text
                    /\ \A other \in stored : other.id = rec.id => other = rec]_vars

RECURSIVE ConcatTexts(_, _)
ConcatTexts(chunks, k) ==
  IF k > Len(chunks) THEN <<>> ELSE chunks[k].text \o ConcatTexts(chunks, k + 1)

\* C16: the emitted chunks, concatenated in position order (a text within
\* the chunk size has one chunk and no overlap region), are the original
\* text, character for character.
C16_ChunkingLossless ==
  chunkCall.called => ConcatTexts(chunkCall.value, 1) = chunkCall.text

Max(a, b) == IF a > b THEN a ELSE b

\* C17: every returned candidate with cosine distance d in [0, 2], d = 0
\* included, carries the semantic score (1 - d) * 10 (here in hundredths,
\* with d in hundredths).
C17_SemanticScore ==
  (rerankCall.called /\ ~rerankCall.threw) =>
    \A k \in 1..Len(rerankCall.value) :
      rerankCall.value[k].scores.semantic = 10 * (100 - rerankCall.value[k].distance)

\* C18: every returned candidate with emission index p >= 0, p = 0 included,
\* carries the position score max(0, 3 - 0.1 p) (here in hundredths), so of
\* two returned candidates the one with the smaller p never has the lower
\* position score.
C18_PositionScore ==
  (rerankCall.called /\ ~rerankCall.threw) =>
    /\ \A k \in 1..Len(rerankCall.value) :
         rerankCall.value[k].scores.position =
           Max(0, 300 - 10 * rerankCall.value[k].metadata.position)
    /\ \A k, l \in 1..Len(rerankCall.value) :
         rerankCall.value[k].metadata.position < rerankCall.value[l].metadata.position =>
           rerankCall.value[k].scores.position >= rerankCall.value[l].scores.position

\* the number of matches of query word w in candidate i of the call
CallTf(i, w) == matchCount(toLowerCase(rerankCall.chunks[i].text), w)

CallDocLength(i) == Len(splitWhitespace(toLowerCase(rerankCall.chunks[i].text)))

CallBm25(i) ==
  bm25Score(queryWordsOf(rerankCall.query), toLowerCase(rerankCall.chunks[i].text))

\* candidate j has the word count of candidate i and at least as many
\* matches of every query word
NoFewerMatches(i, j) ==
  LET qw == queryWordsOf(rerankCall.query)
  IN  /\ CallDocLength(i) = CallDocLength(j)
      /\ \A k \in 1..Len(qw) : CallTf(i, qw[k]) <= CallTf(j, qw[k])

\* C19: of two candidates scored for the same query that have the same word
\* count, the one with at least as many matches of every query term has at
\* least the bm25 score of the other, as computed and as reported.
C19_Bm25Monotone ==
  (rerankCall.called /\ ~rerankCall.threw) =>
    \A i, j \in 1..Len(rerankCall.chunks) :
      NoFewerMatches(i, j) =>
        /\ CallBm25(i) <= CallBm25(j)
        /\ (RankOf(i) # 0 /\ RankOf(j) # 0) =>
             rerankCall.value[RankOf(i)].scores.bm25
               <= rerankCall.value[RankOf(j)].scores.bm25

\* two returned candidates of three words, the second with two more matches
\* of a query term and a strictly higher bm25 score
C19_Witness ==
  /\ rerankCall.called /\ ~rerankCall.threw
  /\ \E i, j \in 1..Len(rerankCall.chunks) :
       /\ NoFewerMatches(i, j) /\ CallDocLength(i) = 3
       /\ CallTf(i, wFee) = 1 /\ CallTf(j, wFee) = 3
       /\ RankOf(i) # 0 /\ RankOf(j) # 0
       /\ rerankCall.value[RankOf(i)].scores.bm25
            < rerankCall.value[RankOf(j)].scores.bm25

\* candidate i of the call holds the phrase as a substring of its lowercased
\* text
CallHasPhrase(i, phrase) == includes(toLowerCase(rerankCall.chunks[i].text), phrase)

\* the phrase score the call reports for candidate i
CallPhrase(i) ==
  scoreChunk(queryWordsOf(rerankCall.query), rerankCall.chunks[i], i).scores.phrase

\* candidates i and j agree in distance, position, length, word count and in
\* the matches of every query word, and j holds no bigram or trigram of the
\* query that i does not hold
OtherwiseEqual(i, j) ==
  LET qw == queryWordsOf(rerankCall.query)
      tri == queryTrigramsOf(qw)
      bi  == queryBigramsOf(qw)
  IN  /\ rerankCall.chunks[i].distance = rerankCall.chunks[j].distance
      /\ rerankCall.chunks[i].metadata.position = rerankCall.chunks[j].metadata.position
      /\ rerankCall.chunks[i].metadata.length = rerankCall.chunks[j].metadata.length
      /\ CallDocLength(i) = CallDocLength(j)
      /\ \A k \in 1..Len(qw) : CallTf(i, qw[k]) = CallTf(j, qw[k])
      /\ \A k \in 1..Len(tri) : CallHasPhrase(j, tri[k]) => CallHasPhrase(i, tri[k])
      /\ \A k \in 1..Len(bi) : CallHasPhrase(j, bi[k]) => CallHasPhrase(i, bi[k])

RECURSIVE ExpectedContext(_, _)
ExpectedContext(chunks, k) ==
  IF k > Len(chunks) THEN <<>>
  ELSE <<"[Source: ", chunks[k].metadata.filename, "]\n">> \o chunks[k].text
       \o (IF k < Len(chunks) THEN <<"\n\n---\n\n">> ELSE <<>>)
       \o ExpectedContext(chunks, k + 1)

\* C21: the context handed to the generation call is, for the reranked
\* chunks in reranked order, "[Source: <filename>]" and the chunk text, joined
\* by the separator; the sources of the response are the same chunks in the
\* same order, and documentsSearched is the number of distinct filenames
\* among them.
C21_ContextAndSources ==
  [][\A r \in Reqs :
       /\ (req[r].pc = "querying" /\ req'[r].pc = "generating") =>
            /\ req'[r].rerankedChunks
                 = optimalReranking(req[r].question,
                                    req'[r].retrievedChunks, afterReranking).value
            /\ req'[r].context = ExpectedContext(req'[r].rerankedChunks, 1)
       /\ Responds(r, "generating", 200) =>
            /\ Len(req'[r].sources) = Len(req[r].rerankedChunks)
            /\ \A k \in 1..Len(req'[r].sources) :
                 /\ req'[r].sources[k].text = req[r].rerankedChunks[k].text
                 /\ req'[r].sources[k].filename = req[r].rerankedChunks[k].metadata.filename
                 /\ req'[r].sources[k].scores = req[r].rerankedChunks[k].scores
            /\ req'[r].documentsSearched =
                 Cardinality({req'[r].sources[k].filename : k \in 1..Len(req'[r].sources)})]_vars

\* an answer whose sources come from two documents, in an order that differs
\* from the retrieval order
C21_Witness ==
  \E r \in Reqs :
    /\ req[r].op = "ask" /\ req[r].pc = "done" /\ req[r].status = 200
    /\ req[r].documentsSearched = 2 /\ Len(req[r].sources) > 2
    /\ \E k \in 1..(Len(req[r].rerankedChunks) - 1) :
         req[r].rerankedChunks[k].retrievalIndex > req[r].rerankedChunks[k + 1].retrievalIndex

\* requests are handled only by a listening server, which has its
\* collection; a failed initialisation leaves no collection and no listener
ListensAfterInit ==
  /\ \A r \in Reqs : req[r].pc # "idle" =>
       (server.pc = "running" /\ server.collection = "ready")
  /\ server.pc \in {"listen", "running"} => server.collection = "ready"
  /\ server.collection = "undefined" => server.pc \in {"initChromaDB", "exited"}
  /\ server.pc = "exited" =>
       (server.collection = "undefined" /\ \A r \in Reqs : req[r] = IdleReq)

\* C22: a request is in a handler, or has been answered, only when the
\* server listens, and the server listens only with the collection
\* initialised; once initChromaDB has failed, startServer has ended: the
\* server never listens and no request is ever handled.
C22_ListenAfterInit ==
  /\ []ListensAfterInit
  /\ [][server.pc = "exited" => (server'.pc = "exited" /\ req' = req)]_vars

\* a request has been answered by the listening server, whose collection
\* was initialised first
C22_Witness ==
  /\ server.pc = "running" /\ server.collection = "ready"
  /\ \E r \in Reqs : req[r].pc = "done" /\ req[r].op = "sessions" /\ req[r].status = 200

C24_DeletedCountsAddUp ==
  [][\A r \in Reqs :
       Responds(r, "deleting", 200) =>
         req'[r].deletedCount = Cardinality(index \ index')]_vars

\* C25: every answer generated from retrieved context reports
\* 1 <= initialRetrieved <= 20, afterReranking = min(5, initialRetrieved) =
\* the number of sources, and 1 <= documentsSearched <= afterReranking.
C25_RetrievalInfoBounds ==
  \A r \in Reqs :
    (/\ req[r].op = "ask" /\ req[r].pc = "done" /\ req[r].status = 200
     /\ req[r].answer = "generated") =>
      /\ 1 <= req[r].initialRetrieved /\ req[r].initialRetrieved <= 20
      /\ req[r].afterReranking = Min(5, req[r].initialRetrieved)
      /\ req[r].afterReranking = Len(req[r].sources)
      /\ 1 <= req[r].documentsSearched
      /\ req[r].documentsSearched <= req[r].afterReranking

\* more than 20 chunks were eligible: 20 were retrieved and 5 of two
\* documents are returned
C25_Witness ==
  \E r \in Reqs :
    /\ req[r].op = "ask" /\ req[r].pc = "done" /\ req[r].status = 200
    /\ req[r].answer = "generated" /\ Cardinality(index) > 20
    /\ req[r].initialRetrieved = 20 /\ req[r].afterReranking = 5
    /\ req[r].documentsSearched = 2

\* C26: at most one /ask request of the UI is outstanding at any time, and
\* isAnalyzing is true exactly while one is outstanding.
C26_SingleAskInFlight ==
  /\ ui.outstanding <= 1
  /\ ui.isAnalyzing <=> ui.outstanding > 0

====
